---- MODULE Spec2Model ----
(***************************************************************************)
(* Feodo-C2-DataEnrichment: the enrich tool (src/datasetEnricher.py) and   *)
(* the fetch tool (src/latestDataset.py) as state machines.                *)
(*                                                                         *)
(*   Spec       one or more runs of the enrich tool against one cache file *)
(*              (provider responses, batch failures and kills are chosen   *)
(*              by the environment)                                        *)
(*   SpecBatch  rate_limited_batches alone, over the batch sizes the       *)
(*              command line accepts                                       *)
(*   SpecFetch  one run of the fetch tool over a small directory           *)
(*                                                                         *)
(* Strings stand for themselves.  None is Python's None (an absent JSON    *)
(* key, a null CSV cell of a geo column); NaN is pandas' missing cell.     *)
(***************************************************************************)
EXTENDS Integers, Sequences, FiniteSets, TLC

VARIABLES
  \* ---- enrich tool ----
  pc,          \* position of the run: a Pipeline stage, a step of the batch loop, "done", "killed"
  run,         \* number of the run against this cache file
  columns,     \* df.columns
  df,          \* the dst_ip cell of every record, in order (NaN where there is none)
  geo,         \* the geo columns built by map_ip, one record per row (<<>> before that)
  stages,      \* the stages applied so far, in order
  batch_size,  \* args.batch
  rpm,         \* args.rps
  disk,        \* the cache file
  cache,       \* the in-memory cache of enrich_geolocation
  cache0,      \* the cache as loaded at the start of the run
  persisted,   \* what the last completed save_cache of the run wrote (cache0 before the first)
  to_query,    \* enrich_geolocation's to_query
  i,           \* rate_limited_batches' loop index
  chunk,       \* the chunk yielded last
  sent,        \* the chunks sent to the provider in this run, in order
  failed,      \* for every chunk sent and answered: the error text, or None when the call succeeded
  inflight,    \* requests sent and not yet answered
  saves,       \* completed save_cache calls of this run
  sleeps,      \* the pacing pauses of this run, in order
  output,      \* the output CSV of this run
  \* ---- rate_limited_batches alone ----
  bPc, bItems, bSize, bI, bSent,
  \* ---- fetch tool ----
  fpc, fs, fs0, out_path, data, exit_code, symlinks_ok, publish_failed

enrichVars == <<pc, run, columns, df, geo, stages, batch_size, rpm, disk, cache, cache0,
                persisted, to_query, i, chunk, sent, failed, inflight, saves, sleeps,
                output>>
batchVars  == <<bPc, bItems, bSize, bI, bSent>>
fetchVars  == <<fpc, fs, fs0, out_path, data, exit_code, symlinks_ok, publish_failed>>
vars       == <<enrichVars, batchVars, fetchVars>>

(***************************************************************************)
(* Bounds                                                                  *)
(***************************************************************************)
MaxRows      == 3    \* records per dataset
MaxResp      == 2    \* records in one provider response
MaxRuns      == 2    \* runs against the same cache file
MaxItems     == 101  \* SpecBatch: items handed to rate_limited_batches

None == "None"
NaN  == "NaN"

\* IP strings in Python's string order ("1.1.1.1" < "10.0.0.2" < "2.2.2.2").
IPOrder == <<"1.1.1.1", "10.0.0.2", "2.2.2.2">>
IPs     == {"1.1.1.1", "10.0.0.2"}
Rank(ip) == CHOOSE k \in 1..Len(IPOrder) : IPOrder[k] = ip

Countries  == {"US", "DE"}
ErrorTexts == {"timeout", "HTTP 429"}
RpmArgs    == {0, 40}
\* --batch values of Spec (SpecBatch covers every value the command line takes)
BatchSizes == {1, 2}

Range(s) == {s[k] : k \in 1..Len(s)}
Min(a, b) == IF a < b THEN a ELSE b
Max(a, b) == IF a > b THEN a ELSE b
EmptyMap == <<>>

RECURSIVE Flatten(_)
Flatten(ss) == IF ss = <<>> THEN <<>> ELSE Head(ss) \o Flatten(Tail(ss))

(***************************************************************************)
(* Pure functions of datasetEnricher.py                                    *)
(***************************************************************************)

\* normalize_cols on the column names in play: strip, lower, " " and "-" -> "_".
NormalizedName ==
  ("Dst IP" :> "dst_ip") @@ ("dst_ip" :> "dst_ip") @@
  ("DST-Port " :> "dst_port") @@ ("dst_port" :> "dst_port") @@
  ("First Seen UTC" :> "first_seen_utc") @@ ("first_seen_utc" :> "first_seen_utc") @@
  (" last-online" :> "last_online") @@ ("last_online" :> "last_online") @@
  ("Malware" :> "malware") @@ ("malware" :> "malware")
normalize_cols(cols) == {NormalizedName[c] : c \in cols}

to_datetime(cols) == cols

enrich_ports(cols) ==
  IF "dst_port" \in cols THEN cols \cup {"dst_port_name"} ELSE cols

compute_lifespan(cols) ==
  IF {"first_seen_utc", "last_online"} \subseteq cols THEN cols \cup {"lifespan_days"} ELSE cols

\* The cache file: absent, unparseable (torn by an interrupted write), or a JSON object.
Missing      == [state |-> "missing", data |-> EmptyMap]
Torn         == [state |-> "torn", data |-> EmptyMap]
FileOf(m)    == [state |-> "ok", data |-> m]

load_cache(file) == IF file.state = "ok" THEN file.data ELSE EmptyMap

\* sorted(S) for a set of IP strings
RECURSIVE sorted(_)
sorted(S) ==
  IF S = {} THEN <<>>
  ELSE LET m == CHOOSE x \in S : \A y \in S : Rank(x) <= Rank(y)
       IN  <<m>> \o sorted(S \ {m})

dropna(cells) == SelectSeq(cells, LAMBDA c : c # NaN)

unique_ips(cells) == sorted({ip \in Range(dropna(cells)) : ip # ""})

\* a variant that forgets the cache: every unique IP is queried again
ToQuery_ignoringCache(cells, c) == unique_ips(cells)

\* to_query = [ip for ip in unique_ips if ip not in cache]
ToQuery(cells, c) == SelectSeq(unique_ips(cells), LAMBDA ip : ip \notin DOMAIN c)

\* items[i:i + batch_size]
Chunk(items, k, b) == SubSeq(items, k + 1, Min(k + b, Len(items)))

\* range(0, len(items), batch_size) still has the index k
InRange(k, n, b) == IF b > 0 THEN k < n ELSE k > n

\* a variant that also pauses after a last chunk that is full
MoreBatches_inclusive(k, n, b) == k + b <= n

\* "if i + batch_size < len(items)": a pause follows this chunk
MoreBatches(k, n, b) == k + b < n

\* 60.0 / max(1, rpm), as the fraction num / den
sleep_time(r) == [num |-> 60, den |-> Max(1, r)]

FailRecord(ip, e) == [query |-> ip, status |-> "fail", message |-> e]
OkRecord(q, c)    == [query |-> q, status |-> "success", country |-> c]

\* a variant that marks only the first IP of a failed chunk
FailureResults_firstOnly(ch, e) == [k \in 1..Min(1, Len(ch)) |-> FailRecord(ch[k], e)]

\* the except branch: one failure record per IP of the chunk
FailureResults(ch, e) == [k \in 1..Len(ch) |-> FailRecord(ch[k], e)]

\* "q = res.get('query'); if q: cache[q] = res" for one record
Store(c, res) ==
  LET q == res.query
  IN  IF q = None \/ q = ""
      THEN c
      ELSE [k \in DOMAIN c \cup {q} |-> IF k = q THEN res ELSE c[k]]

\* the loop "for res in results"
RECURSIVE Merge(_, _)
Merge(c, results) ==
  IF results = <<>> THEN c ELSE Merge(Store(c, Head(results)), Tail(results))

GeoCols == {"geo_status", "country", "country_code", "region", "city", "lat", "lon",
            "isp", "org", "asn", "timezone"}
SourceKey ==
  ("geo_status" :> "status") @@ ("country" :> "country") @@
  ("country_code" :> "countryCode") @@ ("region" :> "regionName") @@
  ("city" :> "city") @@ ("lat" :> "lat") @@ ("lon" :> "lon") @@ ("isp" :> "isp") @@
  ("org" :> "org") @@ ("asn" :> "as") @@ ("timezone" :> "timezone")

Get(r, key) == IF key \in DOMAIN r THEN r[key] ELSE None

\* map_ip: r = cache.get(str(ip), {}); one value per geo column
map_ip(c, ip) ==
  LET r == IF ip \in DOMAIN c THEN c[ip] ELSE EmptyMap
  IN  [col \in GeoCols |-> Get(r, SourceKey[col])]

\* a variant that computes the lifespan before the datetimes are parsed
Pipeline_lifespanEarly ==
  <<"normalize_cols", "compute_lifespan", "to_datetime", "enrich_ports",
    "enrich_geolocation", "to_csv">>

\* the stages of main, in the order it applies them
Pipeline == <<"normalize_cols", "to_datetime", "enrich_ports", "compute_lifespan",
              "enrich_geolocation", "to_csv">>
StageIndex(s) == CHOOSE k \in 1..Len(Pipeline) : Pipeline[k] = s
After(s) == IF StageIndex(s) = Len(Pipeline) THEN "done" ELSE Pipeline[StageIndex(s) + 1]

(***************************************************************************)
(* Inputs                                                                  *)
(***************************************************************************)
\* a dst_ip cell as read_csv delivers it: a non-empty string, or NaN for an empty field
Cells    == IPs \cup {NaN}
Datasets == UNION {[1..n -> Cells] : n \in 0..MaxRows}
Headers  == { {"Dst IP", "DST-Port ", "First Seen UTC", " last-online", "Malware"},
              {"dst_ip", "first_seen_utc", "malware"},
              {"DST-Port ", "first_seen_utc", "last_online"} }
HasIpColumn(h) == "dst_ip" \in normalize_cols(h)

\* what a provider may return: any number of records, each echoing any IP, the
\* empty string, or no query at all
Responses ==
  LET Recs == {OkRecord(q, c) : q \in IPs, c \in Countries}
                \cup {OkRecord(None, "US"), OkRecord("", "US")}
  IN  UNION {[1..n -> Recs] : n \in 0..MaxResp}

\* the entries a cache file written by earlier runs may hold for ip
Entries(ip) == {FailRecord(ip, "timeout")} \cup {OkRecord(ip, c) : c \in Countries}
CacheMaps ==
  UNION {{m \in [S -> UNION {Entries(ip) : ip \in S}] : \A ip \in S : m[ip].query = ip}
         : S \in SUBSET IPs}
CacheFiles == {Missing, Torn} \cup {FileOf(m) : m \in CacheMaps}

FailMarked(file) == {ip \in DOMAIN load_cache(file) : load_cache(file)[ip].status = "fail"}

NoOutput == [written |-> FALSE, columns |-> {}, rows |-> <<>>]

\* df["dst_ip"].astype(str).apply(map_ip): one geo record per row, none dropped
GeoRows(cells, c) == [k \in 1..Len(cells) |-> map_ip(c, cells[k])]

\* df.to_csv(out): the columns and the rows, in order
CsvOf(cols, cells, g) ==
  [written |-> TRUE, columns |-> cols,
   rows |-> [k \in 1..Len(cells) |->
               [dst_ip |-> cells[k], geo |-> IF k \in DOMAIN g THEN g[k] ELSE EmptyMap]]]

(***************************************************************************)
(* The enrich tool                                                         *)
(***************************************************************************)
IdleBatch ==
  /\ bPc = "idle" /\ bItems = <<>> /\ bSize = 1 /\ bI = 0 /\ bSent = <<>>
IdleFetch ==
  /\ fpc = "idle" /\ fs = EmptyMap /\ fs0 = EmptyMap /\ out_path = None /\ data = None
  /\ exit_code = 0 /\ symlinks_ok = TRUE /\ publish_failed = FALSE
IdleEnrich ==
  /\ pc = "idle" /\ run = 0 /\ columns = {} /\ df = <<>> /\ geo = <<>> /\ stages = <<>>
  /\ batch_size = 1 /\ rpm = 1 /\ disk = Missing /\ cache = EmptyMap /\ cache0 = EmptyMap
  /\ persisted = EmptyMap /\ to_query = <<>> /\ i = 0 /\ chunk = <<>> /\ sent = <<>>
  /\ failed = <<>> /\ inflight = 0 /\ saves = 0 /\ sleeps = <<>> /\ output = NoOutput

\* pd.read_csv(inp): a header and its records; a dataset without a dst_ip column has no such cells
ReadCsv(h, cells) ==
  /\ h \in Headers
  /\ cells \in Datasets
  /\ HasIpColumn(h) \/ \A k \in 1..Len(cells) : cells[k] = NaN

Init ==
  /\ pc = Pipeline[1]
  /\ run = 1
  /\ \E h \in Headers, cells \in Datasets :
       /\ ReadCsv(h, cells)
       /\ columns = h
       /\ df = cells
  /\ geo = <<>>
  /\ stages = <<>>
  /\ batch_size \in BatchSizes
  /\ rpm \in RpmArgs
  /\ disk \in CacheFiles
  /\ cache = EmptyMap /\ cache0 = EmptyMap /\ persisted = EmptyMap
  /\ to_query = <<>> /\ i = 0 /\ chunk = <<>> /\ sent = <<>> /\ failed = <<>>
  /\ inflight = 0 /\ saves = 0 /\ sleeps = <<>>
  /\ output = NoOutput
  /\ IdleBatch /\ IdleFetch

\* a stage of main that only reshapes the table
TableStage(name, cols) ==
  /\ pc = name
  /\ columns' = cols
  /\ stages' = Append(stages, name)
  /\ pc' = After(name)
  /\ UNCHANGED <<batchVars, fetchVars, run, df, geo, batch_size, rpm, disk, cache, cache0, persisted, to_query, i,
                 chunk, sent, failed, inflight, saves, sleeps, output>>

NormalizeCols   == TableStage("normalize_cols", normalize_cols(columns))
ToDatetime      == TableStage("to_datetime", to_datetime(columns))
EnrichPorts     == TableStage("enrich_ports", enrich_ports(columns))
ComputeLifespan == TableStage("compute_lifespan", compute_lifespan(columns))

\* enrich_geolocation, lines 114-121: no dst_ip column, or load the cache and pick the IPs
GeoStart ==
  /\ pc = "enrich_geolocation"
  /\ IF "dst_ip" \notin columns
     THEN /\ stages' = Append(stages, "enrich_geolocation")
          /\ pc' = After("enrich_geolocation")
          /\ UNCHANGED <<cache, cache0, persisted, to_query>>
     ELSE /\ cache' = load_cache(disk)
          /\ cache0' = load_cache(disk)
          /\ persisted' = load_cache(disk)
          /\ to_query' = ToQuery(df, load_cache(disk))
          /\ pc' = "gen"
          /\ UNCHANGED stages
  /\ i' = 0
  /\ UNCHANGED <<batchVars, fetchVars, run, columns, df, geo, batch_size, rpm, disk, chunk, sent, failed, inflight,
                 saves, sleeps, output>>

\* rate_limited_batches, lines 105-107: the next chunk, or the end of the loop
NextChunk ==
  /\ pc = "gen"
  /\ IF InRange(i, Len(to_query), batch_size)
     THEN /\ chunk' = Chunk(to_query, i, batch_size)
          /\ pc' = "query"
     ELSE /\ pc' = "map"
          /\ UNCHANGED chunk
  /\ UNCHANGED <<batchVars, fetchVars, run, columns, df, geo, stages, batch_size, rpm, disk, cache, cache0, persisted,
                 to_query, i, sent, failed, inflight, saves, sleeps, output>>

\* ip_api_batch_query, lines 98-99: one POST carrying the chunk
SendRequest ==
  /\ pc = "query"
  /\ sent' = Append(sent, chunk)
  /\ inflight' = inflight + 1
  /\ pc' = "await"
  /\ UNCHANGED <<batchVars, fetchVars, run, columns, df, geo, stages, batch_size, rpm, disk, cache, cache0, persisted,
                 to_query, i, chunk, failed, saves, sleeps, output>>

\* lines 100-101 and 132-135: the provider answers; its records are stored
ReceiveResponse ==
  /\ pc = "await"
  /\ \E results \in Responses : cache' = Merge(cache, results)
  /\ failed' = Append(failed, None)
  /\ inflight' = inflight - 1
  /\ pc' = "save"
  /\ UNCHANGED <<batchVars, fetchVars, run, columns, df, geo, stages, batch_size, rpm, disk, cache0, persisted,
                 to_query, i, chunk, sent, saves, sleeps, output>>

\* lines 127-135: the call raises; failure records for the chunk are stored
RequestFails ==
  /\ pc = "await"
  /\ \E e \in ErrorTexts :
       /\ cache' = Merge(cache, FailureResults(chunk, e))
       /\ failed' = Append(failed, e)
  /\ inflight' = inflight - 1
  /\ pc' = "save"
  /\ UNCHANGED <<batchVars, fetchVars, run, columns, df, geo, stages, batch_size, rpm, disk, cache0, persisted,
                 to_query, i, chunk, sent, saves, sleeps, output>>

\* save_cache, line 91: write_text opens the file for writing, which truncates it
SaveOpen ==
  /\ pc = "save"
  /\ disk' = Torn
  /\ pc' = "saving"
  /\ UNCHANGED <<batchVars, fetchVars, run, columns, df, geo, stages, batch_size, rpm, cache, cache0, persisted,
                 to_query, i, chunk, sent, failed, inflight, saves, sleeps, output>>

\* save_cache, lines 91-94: the whole mapping is written and the file closed
SaveFinish ==
  /\ pc = "saving"
  /\ disk' = FileOf(cache)
  /\ persisted' = cache
  /\ saves' = saves + 1
  /\ pc' = "pace"
  /\ UNCHANGED <<batchVars, fetchVars, run, columns, df, geo, stages, batch_size, rpm, cache, cache0, to_query, i,
                 chunk, sent, failed, inflight, sleeps, output>>

\* rate_limited_batches, lines 109-111 and the loop's step: pause unless this was the last chunk
Pace ==
  /\ pc = "pace"
  /\ sleeps' = IF MoreBatches(i, Len(to_query), batch_size)
               THEN Append(sleeps, [sent |-> Len(sent), saves |-> saves, inflight |-> inflight,
                                    secs |-> sleep_time(rpm)])
               ELSE sleeps
  /\ i' = i + batch_size
  /\ pc' = "gen"
  /\ UNCHANGED <<batchVars, fetchVars, run, columns, df, geo, stages, batch_size, rpm, disk, cache, cache0, persisted,
                 to_query, chunk, sent, failed, inflight, saves, output>>

\* enrich_geolocation, lines 141-159: the geo columns, from the cache
BuildGeo ==
  /\ pc = "map"
  /\ geo' = GeoRows(df, cache)
  /\ columns' = columns \cup GeoCols
  /\ stages' = Append(stages, "enrich_geolocation")
  /\ pc' = After("enrich_geolocation")
  /\ UNCHANGED <<batchVars, fetchVars, run, df, batch_size, rpm, disk, cache, cache0, persisted, to_query, i, chunk,
                 sent, failed, inflight, saves, sleeps, output>>

\* main, lines 183-185
WriteCsv ==
  /\ pc = "to_csv"
  /\ output' = CsvOf(columns, df, geo)
  /\ stages' = Append(stages, "to_csv")
  /\ pc' = After("to_csv")
  /\ UNCHANGED <<batchVars, fetchVars, run, columns, df, geo, batch_size, rpm, disk, cache, cache0, persisted,
                 to_query, i, chunk, sent, failed, inflight, saves, sleeps>>

Running == pc \notin {"done", "killed", "exited", "idle"}

\* the process is killed: the files stay as they are and what it held in memory is gone
\* (the input, what it had loaded, sent and saved are kept as the record of the run)
Kill ==
  /\ Running
  /\ pc' = "killed"
  /\ inflight' = 0
  /\ columns' = {} /\ geo' = <<>> /\ stages' = <<>> /\ cache' = EmptyMap
  /\ i' = 0 /\ chunk' = <<>> /\ failed' = <<>> /\ sleeps' = <<>>
  /\ UNCHANGED <<batchVars, fetchVars, run, df, batch_size, rpm, disk, cache0, persisted,
                 to_query, sent, saves, output>>

\* the process is gone (finished or killed): only the files are left
ProcessExit ==
  /\ pc \in {"done", "killed"}
  /\ pc' = "exited"
  /\ columns' = {} /\ df' = <<>> /\ geo' = <<>> /\ stages' = <<>>
  /\ cache' = EmptyMap /\ cache0' = EmptyMap /\ persisted' = EmptyMap
  /\ to_query' = <<>> /\ i' = 0 /\ chunk' = <<>> /\ sent' = <<>> /\ failed' = <<>>
  /\ inflight' = 0 /\ saves' = 0 /\ sleeps' = <<>>
  /\ output' = NoOutput
  /\ UNCHANGED <<batchVars, fetchVars, run, batch_size, rpm, disk>>

\* the tool is started again on the same cache file, with any dataset and a fresh output path
NewRun ==
  /\ pc = "exited"
  /\ run < MaxRuns
  /\ run' = run + 1
  /\ pc' = Pipeline[1]
  /\ \E h \in Headers, cells \in Datasets :
       /\ ReadCsv(h, cells)
       /\ columns' = h
       /\ df' = cells
  /\ UNCHANGED <<batchVars, fetchVars, geo, stages, batch_size, rpm, disk, cache, cache0,
                 persisted, to_query, i, chunk, sent, failed, inflight, saves, sleeps, output>>

Next ==
  \/ NormalizeCols \/ ToDatetime \/ EnrichPorts \/ ComputeLifespan
  \/ GeoStart \/ NextChunk \/ SendRequest \/ ReceiveResponse \/ RequestFails
  \/ SaveOpen \/ SaveFinish \/ Pace \/ BuildGeo \/ WriteCsv
  \/ Kill \/ ProcessExit \/ NewRun

Spec == Init /\ [][Next]_vars

(***************************************************************************)
(* Properties of the enrich tool                                           *)
(***************************************************************************)
\* one step of the program itself (not of its environment)
ProgramStep ==
  \/ NormalizeCols \/ ToDatetime \/ EnrichPorts \/ ComputeLifespan
  \/ GeoStart \/ NextChunk \/ SendRequest \/ ReceiveResponse \/ RequestFails
  \/ SaveOpen \/ SaveFinish \/ Pace \/ BuildGeo \/ WriteCsv

IsPrefix(s, t) == Len(s) <= Len(t) /\ \A k \in 1..Len(s) : s[k] = t[k]
StrictlyAscending(s) == \A a, b \in 1..Len(s) : a < b => Rank(s[a]) < Rank(s[b])
NumChunks == (Len(to_query) + batch_size - 1) \div batch_size

\* C1: within a run, an entry the in-memory cache holds is never replaced by
\* a different value (nor removed), whatever the provider answers.
C1_NeverOverwritten ==
  [][(Running /\ Running' /\ run' = run)
       => \A ip \in DOMAIN cache : ip \in DOMAIN cache' /\ cache'[ip] = cache[ip]]_vars

\* C2: a run killed after at least one completed batch leaves a cache file
\* that loads to every key present at the start and every key stored by the
\* completed batches, and a restart on the same input queries none of them.
C2_InterruptSafe ==
  (pc = "killed" /\ saves >= 1)
    => LET onDisk == load_cache(disk)
           again  == ToQuery(df, onDisk)
       IN  /\ DOMAIN persisted \subseteq DOMAIN onDisk
           /\ Range(again) \cap DOMAIN persisted = {}
           /\ Range(again) \subseteq Range(to_query)

\* C3: once a failed chunk has been processed the cache holds the failure
\* record of each of its IPs; after a failure the run is never stuck; and a
\* finished run has requested, merged and saved every chunk, whichever failed.
C3_FailureIsolated ==
  /\ (Running /\ \E k \in 1..Len(failed) : failed[k] # None) => ENABLED ProgramStep
  /\ (pc = "save" /\ failed # <<>> /\ failed[Len(failed)] # None)
       => \A ip \in Range(chunk) :
            /\ ip \in DOMAIN cache
            /\ cache[ip] = [query |-> ip, status |-> "fail", message |-> failed[Len(failed)]]
  /\ (pc = "done" /\ "dst_ip" \in columns)
       => /\ Len(sent) = NumChunks
          /\ Flatten(sent) = to_query
          /\ Len(failed) = Len(sent)
          /\ saves = Len(sent)

\* a finished run whose first chunk failed and whose later chunk was still answered
C3_Witness ==
  /\ pc = "done"
  /\ Len(failed) >= 2
  /\ failed[1] # None
  /\ failed[2] = None
  /\ \A ip \in Range(sent[1]) : cache[ip].status = "fail"

C5_FailedNeverRetried ==
  LET marked == FailMarked(FileOf(cache0))
  IN  /\ Range(Flatten(sent)) \cap marked = {}
      /\ pc # "saving" => \A ip \in marked : ip \in FailMarked(disk)

\* the pacing of the request stream: the k-th pause comes when exactly k chunks
\* have been sent, merged and saved and none is outstanding, lasts as `lasts'
\* says, precedes request k + 1, and no pause follows the last chunk; at most
\* one request is outstanding.
PacedStream(lasts(_)) ==
  /\ inflight \in {0, 1}
  /\ \A k \in 1..Len(sleeps) :
       /\ sleeps[k].sent = k /\ sleeps[k].saves = k /\ sleeps[k].inflight = 0
       /\ lasts(sleeps[k].secs)
  /\ pc = "query" => Len(sleeps) = Len(sent)
  /\ pc = "await" => Len(sleeps) = Len(sent) - 1
  /\ (pc = "done" /\ "dst_ip" \in columns) => Len(sleeps) = Max(0, NumChunks - 1)

\* C7 with the rate clamped: the stream is paced as above and every pause
\* lasts 60 / max(1, rpm) seconds.
C7_PacedClamped ==
  PacedStream(LAMBDA t : t.den > 0 /\ t.num * Max(1, rpm) = 60 * t.den)

\* C7 with the rate taken as given: the stream is paced as above and every
\* pause lasts 60 / rpm seconds.
C7_PacedAsStated ==
  PacedStream(LAMBDA t : rpm # 0 /\ t.den # 0 /\ t.num * rpm = 60 * t.den)

\* a finished run that paused between two chunks with a rate below one
C7_Witness ==
  /\ pc = "done"
  /\ Len(sent) = 2
  /\ Len(sleeps) = 1
  /\ rpm < 1

ApiBatchLimit == 100

\* argparse takes any integer for --batch
BatchArgs == -1..(ApiBatchLimit + 1)

InitBatch ==
  /\ bPc = "gen"
  /\ bItems \in {[k \in 1..n |-> k] : n \in 0..MaxItems}
  /\ bSize \in BatchArgs
  /\ bI = 0
  /\ bSent = <<>>
  /\ IdleEnrich /\ IdleFetch

\* lines 105-107 and 124-126: range() rejects a step of 0; otherwise the next
\* chunk is yielded and sent as one request, or the loop ends
BatchNext ==
  /\ bPc = "gen"
  /\ IF bSize = 0
     THEN bPc' = "crashed" /\ UNCHANGED bSent
     ELSE IF InRange(bI, Len(bItems), bSize)
          THEN bSent' = Append(bSent, Chunk(bItems, bI, bSize)) /\ bPc' = "body"
          ELSE bPc' = "done" /\ UNCHANGED bSent
  /\ UNCHANGED <<enrichVars, fetchVars, bItems, bSize, bI>>

\* lines 109-111 and the loop's step
BatchResume ==
  /\ bPc = "body"
  /\ bI' = bI + bSize
  /\ bPc' = "gen"
  /\ UNCHANGED <<enrichVars, fetchVars, bItems, bSize, bSent>>

NextBatch == BatchNext \/ BatchResume

SpecBatch == InitBatch /\ [][NextBatch]_vars

\* C6: the items are cut into contiguous non-empty chunks of at most
\* batch_size whose concatenation is the input, one request each, and for
\* every --batch value no request carries more than 100 entries.
C6_ChunksWithinLimit ==
  /\ \A k \in 1..Len(bSent) :
       /\ 1 <= Len(bSent[k])
       /\ Len(bSent[k]) <= bSize
       /\ Len(bSent[k]) <= 100
  /\ IsPrefix(Flatten(bSent), bItems)
  /\ bPc # "crashed"
  /\ bPc = "done" => Flatten(bSent) = bItems

(***************************************************************************)
(* The fetch tool (latestDataset.py)                                       *)
(***************************************************************************)
Alias       == "latest_feodo_aggressive.csv"
DefaultName == "feodo_aggressive_20261102.csv"
OlderName   == "feodo_aggressive_20261101.csv"
CustomName  == "custom.csv"
Names       == {Alias, DefaultName, OlderName, CustomName}
Bodies      == {"csv-A", "csv-B"}

Absent        == [kind |-> "absent"]
Dir           == [kind |-> "dir"]
File(b)       == [kind |-> "file", bytes |-> b]
Symlink(name) == [kind |-> "symlink", target |-> name]

\* lines 40-44: -o, or the dated default
OutPath(arg) == IF arg = None THEN DefaultName ELSE arg

\* the name a path leads to through symbolic links, None on a loop
RECURSIVE FinalName(_, _, _)
FinalName(f, name, hops) ==
  IF f[name].kind # "symlink" THEN name
  ELSE IF hops = 0 THEN None
  ELSE FinalName(f, f[name].target, hops - 1)

Resolve(f, name) ==
  LET n == FinalName(f, name, Cardinality(Names))
  IN  IF n = None THEN Absent ELSE f[n]

exists(f, name)     == Resolve(f, name).kind \in {"file", "dir"}
is_symlink(f, name) == f[name].kind = "symlink"

\* Path.write_bytes: opens through symbolic links; fails on a directory or a loop
write_bytes(f, name, b) ==
  LET n == FinalName(f, name, Cardinality(Names))
  IN  IF n = None \/ f[n].kind = "dir"
      THEN [ok |-> FALSE, fs |-> f]
      ELSE [ok |-> TRUE, fs |-> [f EXCEPT ![n] = File(b)]]

\* Path.unlink: removes the entry itself; fails on a directory
unlink(f, name) ==
  IF f[name].kind \in {"dir", "absent"}
  THEN [ok |-> FALSE, fs |-> f]
  ELSE [ok |-> TRUE, fs |-> [f EXCEPT ![name] = Absent]]

\* lines 51-62: drop the old alias, link it to the saved file, or copy where
\* links are not supported; any exception is logged and swallowed
publishLatest(f, saved, linksOk) ==
  LET removed == IF exists(f, Alias) \/ is_symlink(f, Alias)
                 THEN unlink(f, Alias)
                 ELSE [ok |-> TRUE, fs |-> f]
      f1      == removed.fs
      src     == Resolve(f1, saved)
      copied  == IF src.kind = "file"
                 THEN write_bytes(f1, Alias, src.bytes)
                 ELSE [ok |-> FALSE, fs |-> f1]
  IN  IF ~removed.ok THEN [failed |-> TRUE, fs |-> f]
      ELSE IF linksOk /\ f1[Alias].kind = "absent"
      THEN [failed |-> FALSE, fs |-> [f1 EXCEPT ![Alias] = Symlink(saved)]]
      ELSE [failed |-> ~copied.ok, fs |-> copied.fs]

\* the directory before the fetch: any alias, any earlier dataset files
Directories ==
  {f \in [Names -> {Absent, Dir, File("csv-old")} \cup {Symlink(n) : n \in Names}] :
     /\ \A n \in Names \ {Alias} : f[n].kind \in {"absent", "file"}}

InitFetch ==
  /\ fpc = "download"
  /\ fs \in Directories
  /\ fs0 = fs
  /\ out_path \in {OutPath(arg) : arg \in {None, CustomName, Alias}}
  /\ data = None
  /\ exit_code = 0
  /\ symlinks_ok \in BOOLEAN
  /\ publish_failed = FALSE
  /\ IdleEnrich /\ IdleBatch

\* download_file, lines 26-33: the request fails; the tool exits with status 1
DownloadFails ==
  /\ fpc = "download"
  /\ fpc' = "exited"
  /\ exit_code' = 1
  /\ UNCHANGED <<enrichVars, batchVars, fs, fs0, out_path, data, symlinks_ok, publish_failed>>

\* download_file, lines 26-33: the body is read and written to out_path
\* (a write that raises is a failed download too)
DownloadOk ==
  /\ fpc = "download"
  /\ \E body \in Bodies :
       LET w == write_bytes(fs, out_path, body)
       IN  IF w.ok
           THEN /\ fs' = w.fs /\ data' = body /\ fpc' = "publish"
                /\ UNCHANGED exit_code
           ELSE /\ fpc' = "exited" /\ exit_code' = 1
                /\ UNCHANGED <<fs, data>>
  /\ UNCHANGED <<enrichVars, batchVars, fs0, out_path, symlinks_ok, publish_failed>>

\* main, lines 50-62
Publish ==
  /\ fpc = "publish"
  /\ LET r == publishLatest(fs, out_path, symlinks_ok)
     IN  fs' = r.fs /\ publish_failed' = r.failed
  /\ fpc' = "exited"
  /\ UNCHANGED <<enrichVars, batchVars, fs0, out_path, data, exit_code, symlinks_ok>>

NextFetch == DownloadFails \/ DownloadOk \/ Publish

SpecFetch == InitFetch /\ [][NextFetch]_vars

\* C8: after a successful download the tool ends with the body at the output
\* path and the alias resolving to the same bytes, whatever alias (none, a
\* file, a symbolic link, a dangling one) was there before.
C8_FetchPublishes ==
  (fpc = "exited" /\ data # None /\ fs0[Alias].kind \in {"absent", "file", "symlink"})
    => /\ Resolve(fs, out_path) = File(data)
       /\ Resolve(fs, Alias) = File(data)

\* C9: a failed download ends with a non-zero status and the alias as it
\* was; a failed publish ends with status 0 and the downloaded file in place.
C9_FailureHandling ==
  /\ (fpc = "exited" /\ data = None)
       => exit_code # 0 /\ ~publish_failed /\ fs = fs0
  /\ (fpc = "exited" /\ publish_failed)
       => exit_code = 0 /\ Resolve(fs, out_path) = File(data)
====
